---- MODULE Spec2Model ----
(***************************************************************************)
(* Model of src/aggregator.go: the bucket tree of package netgraph (its    *)
(* construction, selection, merge and binary codec) and the min-price      *)
(* aggregator of package netmap.                                           *)
(*                                                                         *)
(* Representation.  A Go string is a sequence of one-character strings.    *)
(* A Bucket is a record [Key, Value, nodes, children]; a nil slice and an  *)
(* empty slice are both << >>.  A *Bucket is a sequence of length at most  *)
(* one: << >> is nil and <<b>> points to b.  An error is a string, "nil"   *)
(* for no error.                                                           *)
(***************************************************************************)
EXTENDS Integers, Sequences, FiniteSets, TLC

VARIABLES
    root,    \* the Bucket the operations act on
    other,   \* a second tree (the argument of Merge)
    third,   \* a third tree (associativity of Merge)
    op,      \* the last operation: its name, inputs and results
    agg,     \* minPriceAgg.min
    added    \* the prices fed to the aggregator so far, in order

vars == <<root, other, third, op, agg, added>>

----------------------------------------------------------------------------
(* Bounds of the model *)

\* node identifiers are 1..MaxId
MaxId == 2
\* operations applied while constructing a tree
MaxOps == 2
\* prices are 0..MaxPrice
MaxPrice == 3
\* nodes fed to the aggregator
MaxAdded == 4
\* nodes added to a tree before a selection
MaxAdds == 2
\* the Count of a Select step is 1..MaxCount
MaxCount == 2
\* nodes added to the three trees of a merge, together
MaxMergeAdds == 3

----------------------------------------------------------------------------
(* Go values *)

Separator == "/"
NodesBucket == << >>
Colon == ":"

NoErr == "nil"
None == << >>
Some(b) == <<b>>

\* Bucket{Key: k, Value: v}
Bucket(k, v) == [Key |-> k, Value |-> v, nodes |-> << >>, children |-> << >>]

\* Bucket.Equals
Equals(b, b1) == b.Key = b1.Key /\ b.Value = b1.Value

\* a faulty Name, for comparison: Value before Key
NameValueFirst(b) == b.Value \o <<Colon>> \o b.Key

\* Bucket.Name
Name(b) == b.Key \o <<Colon>> \o b.Value

Range(s) == { s[i] : i \in 1..Len(s) }

\* s[i:] of Go, i counted from 0
From(s, i) == SubSeq(s, i + 1, Len(s))

RECURSIVE Insert(_, _)
Insert(x, s) ==
    IF s = << >> THEN <<x>>
    ELSE IF x <= s[1] THEN <<x>> \o s
    ELSE <<s[1]>> \o Insert(x, Tail(s))

\* sort.Sort on an Int32Slice
RECURSIVE Sort(_)
Sort(s) == IF s = << >> THEN << >> ELSE Insert(s[1], Sort(Tail(s)))

\* the loop of merge, at positions i, j (counted from 0) with c built so far
RECURSIVE mergeLoop(_, _, _, _, _)
mergeLoop(a, b, i, j, c) ==
    IF ~(i < Len(a) \/ j < Len(b)) THEN c
    ELSE IF i = Len(a) THEN c \o From(b, j)
    ELSE IF j = Len(b) THEN c \o From(a, i)
    ELSE IF a[i + 1] < b[j + 1] THEN mergeLoop(a, b, i + 1, j, Append(c, a[i + 1]))
    ELSE IF a[i + 1] > b[j + 1] THEN mergeLoop(a, b, i, j + 1, Append(c, b[j + 1]))
    ELSE mergeLoop(a, b, i + 1, j + 1, Append(c, a[i + 1]))

merge(a, b) == IF a = << >> THEN b ELSE mergeLoop(a, b, 0, 0, << >>)

----------------------------------------------------------------------------
(* strings *)

\* strings.HasPrefix(o, Separator), strings.HasSuffix(o, Separator)
HasPrefix(o) == Len(o) >= 1 /\ o[1] = Separator
HasSuffix(o) == Len(o) >= 1 /\ o[Len(o)] = Separator

\* the index (from 1) of the first sep in s, 0 when there is none
RECURSIVE IndexOf(_, _, _)
IndexOf(s, sep, i) ==
    IF i > Len(s) THEN 0
    ELSE IF s[i] = sep THEN i
    ELSE IndexOf(s, sep, i + 1)

\* strings.Split(s, sep): always at least one piece
RECURSIVE Split(_, _)
Split(s, sep) ==
    LET k == IndexOf(s, sep, 1)
    IN  IF k = 0 THEN <<s>>
        ELSE <<SubSeq(s, 1, k - 1)>> \o Split(SubSeq(s, k + 1, Len(s)), sep)

\* strings.SplitN(s, ":", 2)
SplitN2(s) ==
    LET k == IndexOf(s, Colon, 1)
    IN  IF k = 0 THEN <<s>>
        ELSE <<SubSeq(s, 1, k - 1), SubSeq(s, k + 1, Len(s))>>

splitKV(s) ==
    LET kv == SplitN2(s)
    IN  IF Len(kv) # 2 THEN [k |-> << >>, v |-> << >>, err |-> "wrong format"]
        ELSE [k |-> kv[1], v |-> kv[2], err |-> NoErr]

splitProps(o) ==
    LET ss == Split(o, Separator)
    IN  [i \in 1..Len(ss) |-> Bucket(splitKV(ss[i]).k, splitKV(ss[i]).v)]

----------------------------------------------------------------------------
(* construction *)

RECURSIVE makeTreeProps(_, _)
makeTreeProps(bs, n) ==
    [bs[1] EXCEPT !.nodes = n,
                  !.children = IF Len(bs) > 1
                               THEN <<makeTreeProps(Tail(bs), n)>>
                               ELSE bs[1].children]

\* the index of the first child of b that Equals x, 0 when there is none
RECURSIVE findChild(_, _, _)
findChild(b, x, i) ==
    IF i > Len(b.children) THEN 0
    ELSE IF Equals(x, b.children[i]) THEN i
    ELSE findChild(b, x, i + 1)

\* Bucket.addNodes: the bucket afterwards (it always returns nil)
RECURSIVE addNodes(_, _, _)
addNodes(b, bs, n) ==
    LET b1 == [b EXCEPT !.nodes = merge(b.nodes, n)]
    IN  IF Len(bs) = 0 THEN b1
        ELSE LET i == findChild(b1, bs[1], 1)
             IN  IF i # 0
                 THEN [b1 EXCEPT !.children[i] = addNodes(b1.children[i], Tail(bs), n)]
                 ELSE [b1 EXCEPT !.children = Append(b1.children, makeTreeProps(bs, n))]

\* Bucket.AddBucket: the bucket afterwards and the error returned
AddBucket(b, o, n) ==
    IF o # <<Separator>> /\ (~HasPrefix(o) \/ HasSuffix(o))
    THEN [b |-> b, err |-> "must start and not end with '/'"]
    ELSE [b |-> addNodes(b, splitProps(From(o, 1)), n), err |-> NoErr]

\* Bucket.AddNode: AddBucket for each option in turn, stopping at the first error
RECURSIVE AddNode(_, _, _)
AddNode(b, n, opts) ==
    IF opts = << >> THEN [b |-> b, err |-> NoErr]
    ELSE LET r == AddBucket(b, opts[1], <<n>>)
         IN  IF r.err # NoErr THEN r ELSE AddNode(r.b, n, Tail(opts))

\* Bucket.AddChild
AddChild(b, c) ==
    [b EXCEPT !.nodes = merge(b.nodes, c.nodes), !.children = Append(b.children, c)]

RECURSIVE Copy(_)
\* Bucket.Copy: a new bucket with copies of the nodes and of the children
Copy(b) ==
    [Key |-> b.Key, Value |-> b.Value,
     nodes |-> [i \in 1..Len(b.nodes) |-> b.nodes[i]],
     children |-> [i \in 1..Len(b.children) |-> Copy(b.children[i])]]

----------------------------------------------------------------------------
(* helpers of the package that aggregator.go calls *)

\* contains(a, x): membership in a sorted slice
contains(a, x) == \E i \in 1..Len(a) : a[i] = x

\* diff(a, forbidden): a without the forbidden ids, order kept
diff(a, forbidden) == SelectSeq(a, LAMBDA x : x \notin forbidden)

\* union(a, b): the ids of both, sorted, each once
RECURSIVE SetToSeq(_)
SetToSeq(S) ==
    IF S = {} THEN << >>
    ELSE LET m == CHOOSE x \in S : \A y \in S : x <= y
         IN  <<m>> \o SetToSeq(S \ {m})

union(a, b) == SetToSeq(Range(a) \cup Range(b))

\* Filter.Check: the predicate of a filter, on the Value of the bucket
Check(f, b) == b.Value \in f.Pass

----------------------------------------------------------------------------
(* merge and conflicts *)

\* what the final sort.Sort of Merge does to a bucket appended from b1 when
\* merge returned b1.nodes itself (b.nodes was nil): every bucket that holds
\* that same slice S is sorted with it.  Only the buckets combine chains
\* together share an unsorted slice, and they hold it at every level.
RECURSIVE sortAliased(_, _)
sortAliased(c, S) ==
    IF c.nodes # S THEN c
    ELSE [c EXCEPT !.nodes = Sort(S),
                   !.children = [i \in 1..Len(c.children) |->
                                    sortAliased(c.children[i], S)]]

RECURSIVE Merge(_, _)
RECURSIVE mergeChildren(_, _, _)

\* a faulty loop of Merge, for comparison: an equally labelled child is
\* replaced instead of merged into
RECURSIVE mergeChildrenOverwrite(_, _, _)
mergeChildrenOverwrite(bc, cs1, k) ==
    IF k > Len(cs1) THEN bc
    ELSE LET c1 == cs1[k]
             i  == findChild([children |-> bc], c1, 1)
         IN  IF i # 0
             THEN mergeChildrenOverwrite([bc EXCEPT ![i] = c1], cs1, k + 1)
             ELSE mergeChildrenOverwrite(Append(bc, c1), cs1, k + 1)

\* the loop of Merge over b1's children cs1 from position k: bc is b.children
mergeChildren(bc, cs1, k) ==
    IF k > Len(cs1) THEN bc
    ELSE LET c1 == cs1[k]
             i  == findChild([children |-> bc], c1, 1)
         IN  IF i # 0
             THEN mergeChildren([bc EXCEPT ![i] = Merge(bc[i], c1)], cs1, k + 1)
             ELSE mergeChildren(Append(bc, c1), cs1, k + 1)

Merge(b, b1) ==
    LET ch == mergeChildren(b.children, b1.children, 1)
    IN  [b EXCEPT !.nodes = Sort(merge(b.nodes, b1.nodes)),
                  !.children = IF b.nodes = << >>
                               THEN [i \in 1..Len(ch) |-> sortAliased(ch[i], b1.nodes)]
                               ELSE ch]

RECURSIVE checkConflicts(_, _)
RECURSIVE conflictInner(_, _, _, _, _)

\* the loop over b1's children c1 = b1.children[k] for node n and child c of b
conflictInner(c, b1, n, k, check) ==
    IF k > Len(b1.children) THEN FALSE
    ELSE LET c1 == b1.children[k]
         IN  IF contains(c1.nodes, n) /\ (c.Key # c1.Key \/ c.Value # c1.Value)
             THEN TRUE
             ELSE IF c.Key = c1.Key /\ c.Value = c1.Value /\ ~check
                     /\ checkConflicts(c, c1)
             THEN TRUE
             ELSE conflictInner(c, b1, n, k + 1, TRUE)

checkConflicts(b, b1) ==
    \E x \in 1..Len(b1.nodes) :
        /\ contains(b.nodes, b1.nodes[x])
        /\ \E y \in 1..Len(b.children) :
              /\ contains(b.children[y].nodes, b1.nodes[x])
              /\ conflictInner(b.children[y], b1, b1.nodes[x], 1, FALSE)

----------------------------------------------------------------------------
(* selection *)

RECURSIVE findForbidden(_, _)
RECURSIVE forbiddenOfChildren(_, _, _)

forbiddenOfChildren(b, fs, i) ==
    IF i > Len(b.children) THEN << >>
    ELSE LET rest == forbiddenOfChildren(b, fs, i + 1)
         IN  union(findForbidden(b.children[i], fs), rest)

findForbidden(b, fs) ==
    IF \E i \in 1..Len(fs) : b.Key = fs[i].Key /\ ~Check(fs[i], b)
    THEN b.nodes
    ELSE forbiddenOfChildren(b, fs, 1)

RECURSIVE Nodelist(_)
RECURSIVE nodelistLoop(_, _, _)

nodelistLoop(b, i, r) ==
    IF i > Len(b.children) THEN r
    ELSE nodelistLoop(b, i + 1, merge(r, Nodelist(b.children[i])))

Nodelist(b) ==
    IF b.nodes # << >> \/ Len(b.children) = 0 THEN b.nodes
    ELSE nodelistLoop(b, 1, << >>)

RECURSIVE filterSubtreeKeep(_, _)
RECURSIVE filterSubtree(_, _)
RECURSIVE filterLoop(_, _, _, _)

\* the loop of filterSubtree over b's children from position i
filterLoop(b, forbidden, i, acc) ==
    IF i > Len(b.children) THEN acc
    ELSE LET r == filterSubtree(b.children[i], forbidden)
         IN  IF r # None
             THEN filterLoop(b, forbidden, i + 1,
                     [acc EXCEPT !.nodes = acc.nodes \o r[1].nodes,
                                 !.children = Append(acc.children, r[1])])
             ELSE filterLoop(b, forbidden, i + 1, acc)

\* a faulty filterSubtree, for comparison: a leaf keeps its forbidden ids
filterSubtreeKeep(b, forbidden) ==
    IF Len(b.children) = 0
    THEN IF Len(b.nodes) # 0 THEN Some([Bucket(b.Key, b.Value) EXCEPT !.nodes = b.nodes])
         ELSE None
    ELSE LET acc == filterLoop(b, forbidden, 1, Bucket(b.Key, b.Value))
         IN  IF Len(acc.nodes) > 0
             THEN Some([acc EXCEPT !.nodes = Sort(acc.nodes)])
             ELSE None

\* Bucket.filterSubtree with the filter GetMaxSelection builds: diff against
\* the forbidden set
filterSubtree(b, forbidden) ==
    IF Len(b.children) = 0
    THEN LET ns == diff(b.nodes, forbidden)
         IN  IF Len(ns) # 0 THEN Some([Bucket(b.Key, b.Value) EXCEPT !.nodes = ns])
             ELSE None
    ELSE LET acc == filterLoop(b, forbidden, 1, Bucket(b.Key, b.Value))
         IN  IF Len(acc.nodes) > 0
             THEN Some([acc EXCEPT !.nodes = Sort(acc.nodes)])
             ELSE None

RECURSIVE getMaxSelectionC(_, _, _, _)
RECURSIVE maxSelLoop(_, _, _, _, _, _)

\* the loop of getMaxSelectionC over b's children from position i; acc is
\* root and count is the count so far
maxSelLoop(b, ss, forbidden, i, acc, count) ==
    IF i > Len(b.children) THEN [root |-> acc, count |-> count]
    ELSE LET c    == b.children[i]
             cutc == c.Key = ss[1].Key
             sel  == IF cutc THEN Tail(ss) ELSE ss
             res  == getMaxSelectionC(c, sel, forbidden, cutc)
         IN  IF res.r # None
             THEN maxSelLoop(b, ss, forbidden, i + 1,
                     [acc EXCEPT !.children = Append(acc.children, res.r[1]),
                                 !.nodes = acc.nodes \o Nodelist(res.r[1])],
                     IF cutc THEN count + 1 ELSE count + res.n)
             ELSE maxSelLoop(b, ss, forbidden, i + 1, acc, count)

getMaxSelectionC(b, ss, forbidden, cut) ==
    IF Len(ss) = 0 \/ ss[1].Key = NodesBucket
    THEN LET r == filterSubtree(b, forbidden)
         IN  IF r # None /\ (Len(ss) = 0 \/ ss[1].Count <= Len(r[1].nodes))
             THEN [r |-> r, n |-> Len(r[1].nodes)]
             ELSE [r |-> None, n |-> 0]
    ELSE LET l == maxSelLoop(b, ss, forbidden, 1, Bucket(b.Key, b.Value), 0)
         IN  IF (~cut /\ l.count # 0) \/ l.count >= ss[1].Count
             THEN [r |-> Some([l.root EXCEPT !.nodes = Sort(l.root.nodes)]),
                   n |-> l.count]
             ELSE [r |-> None, n |-> 0]

getMaxSelection(b, ss, forbidden) == getMaxSelectionC(b, ss, forbidden, TRUE)

\* Bucket.GetMaxSelection
GetMaxSelection(b, ss, fs) ==
    getMaxSelection(b, ss, Range(findForbidden(b, fs))).r

RECURSIVE getChildrenByKey(_, _, _)
\* the loop of getChildrenByKey over b's children from position i
getChildrenByKey(b, s, i) ==
    IF i > Len(b.children) THEN << >>
    ELSE LET c == b.children[i]
         IN  (IF s.Key = c.Key THEN <<c>> ELSE getChildrenByKey(c, s, 1))
             \o getChildrenByKey(b, s, i + 1)

RECURSIVE combine(_, _)
RECURSIVE combineLoop(_, _, _)

combineLoop(b, b1, i) ==
    IF i > Len(b.children) THEN None
    ELSE LET r == combine(b.children[i], b1)
         IN  IF r # None
             THEN Some([Key |-> b.Key, Value |-> b.Value,
                        nodes |-> r[1].nodes, children |-> <<r[1]>>])
             ELSE combineLoop(b, b1, i + 1)

combine(b, b1) == IF Equals(b, b1) THEN Some(b1) ELSE combineLoop(b, b1, 1)

\* rand.Rand.Shuffle on a slice s.  rnd is "nil" (no generator: the code does
\* not shuffle) or the outcome of the generator: any fixed rearrangement of
\* the positions, here the identity, the reversal or a rotation
Shuffle(s, rnd) ==
    LET n == Len(s)
    IN  IF rnd = "rev" THEN [i \in 1..n |-> s[n + 1 - i]]
        ELSE IF rnd = "rot" THEN [i \in 1..n |-> s[(i % n) + 1]]
        ELSE s

\* a run-time panic (slice bounds out of range, nil dereference), as a result
Panic == Some(Bucket(<<"!">>, <<"panic">>))

RECURSIVE GetSelection(_, _, _)
RECURSIVE selLoop(_, _, _, _, _, _, _)

\* the loop of GetSelection over the shuffled cs from position i; c is the
\* number of successes so far
selLoop(b, cs, ss, rnd, i, acc, c) ==
    IF i > Len(cs) THEN None
    ELSE LET r == GetSelection(cs[i], Tail(ss), rnd)
         IN  IF r = Panic THEN Panic
             ELSE IF r # None
             THEN LET w == combine(b, r[1])
                  IN  IF w = None THEN Panic
                      ELSE LET acc1 == Merge(acc, w[1])
                           IN  IF c + 1 = ss[1].Count THEN Some(acc1)
                               ELSE selLoop(b, cs, ss, rnd, i + 1, acc1, c + 1)
             ELSE selLoop(b, cs, ss, rnd, i + 1, acc, c)

GetSelection(b, ss, rnd) ==
    IF Len(ss) = 0
    THEN Some([Key |-> b.Key, Value |-> b.Value,
               nodes |-> b.nodes, children |-> b.children])
    ELSE IF ss[1].Key = NodesBucket
    THEN IF ss[1].Count > Len(b.nodes) \/ ss[1].Count < 0 THEN Panic
         ELSE Some([Bucket(b.Key, b.Value) EXCEPT
                       !.nodes = SubSeq(Shuffle(b.nodes, rnd), 1, ss[1].Count)])
    ELSE selLoop(b, Shuffle(getChildrenByKey(b, ss[1], 1), rnd), ss, rnd, 1,
                 Bucket(b.Key, b.Value), 0)

\* Bucket.findGraph
findGraph(b, rnd, ss, fs) ==
    LET c == GetMaxSelection(b, ss, fs)
    IN  IF c # None THEN GetSelection(c[1], ss, rnd) ELSE None

RECURSIVE findGraphLoop(_, _, _, _, _)
findGraphLoop(b, rnd, sels, i, c) ==
    IF i > Len(sels) THEN Some(c)
    ELSE LET g == findGraph(b, rnd, sels[i].Selectors, sels[i].Filters)
         IN  IF g = None THEN None
             ELSE IF g = Panic THEN Panic
             ELSE findGraphLoop(b, rnd, sels, i + 1, Merge(c, g[1]))

\* Bucket.FindGraph
FindGraph(b, rnd, sels) == findGraphLoop(b, rnd, sels, 1, Bucket(b.Key, b.Value))

----------------------------------------------------------------------------
(* aggregators *)

\* minPriceAgg.Add: the new value of min
minPriceAdd(min, p) == IF min = 0 \/ p < min THEN p ELSE min

\* minPriceAgg.Compute
minPriceCompute(min) == min

----------------------------------------------------------------------------
(* inputs *)

GoodPaths ==
    { <<"/", "x", ":", "1">>,
      <<"/", "x", ":", "2">>,
      <<"/", "x", ":", "1", "/", "h", ":", "1">>,
      <<"/", "h", ":", "1", ":", "2">> }

BadPaths ==
    { << >>,
      <<"x", ":", "1">>,
      <<"/", "x", ":", "1", "/">>,
      <<"/">>,
      <<"/", "x">>,
      <<"/", "x", ":", "1", "/", "h">> }

Paths == GoodPaths \cup BadPaths

NodeIds == 1..MaxId

\* the strictly ascending, non-empty id lists
IdLists == { SetToSeq(S) : S \in (SUBSET NodeIds) \ {{}} }

\* the option lists of AddNode
OptLists ==
    { <<p>> : p \in GoodPaths } \cup
    { <<<<"/", "x", ":", "1">>, <<"/", "x", ":", "2">>>>,
      <<<<"/", "x", ":", "1", "/", "h", ":", "1">>, <<"/", "h", ":", "1", ":", "2">>>>,
      <<<<"/", "x", ":", "1">>, <<"x", ":", "1">>>> }

\* the buckets handed to AddChild: chains made the way AddBucket makes them
ChildBuckets ==
    { makeTreeProps(splitProps(From(p, 1)), <<n>>) : p \in GoodPaths, n \in NodeIds }

EmptyRoot == Bucket(<< >>, << >>)

----------------------------------------------------------------------------
(* construction of a tree: AddBucket, AddNode, AddChild on root *)

InitBuild ==
    /\ root = EmptyRoot
    /\ other = EmptyRoot
    /\ third = EmptyRoot
    /\ op = [name |-> "init", n |-> 0, path |-> << >>, err |-> NoErr, changed |-> FALSE]
    /\ agg = 0
    /\ added = << >>

DoAddBucket ==
    /\ op.n < MaxOps
    /\ \E o \in Paths, ids \in IdLists :
          LET r == AddBucket(root, o, ids)
          IN  /\ root' = r.b
              /\ op' = [name |-> "AddBucket", n |-> op.n + 1, path |-> o,
                        err |-> r.err, changed |-> r.b # root]
    /\ UNCHANGED <<other, third, agg, added>>

DoAddNode ==
    /\ op.n < MaxOps
    /\ \E id \in NodeIds, opts \in OptLists :
          LET r == AddNode(root, id, opts)
          IN  /\ root' = r.b
              /\ op' = [name |-> "AddNode", n |-> op.n + 1, path |-> opts[1],
                        err |-> r.err, changed |-> r.b # root]
    /\ UNCHANGED <<other, third, agg, added>>

DoAddChild ==
    /\ op.n < MaxOps
    /\ \E c \in ChildBuckets :
          /\ root' = AddChild(root, c)
          /\ op' = [name |-> "AddChild", n |-> op.n + 1, path |-> << >>,
                    err |-> NoErr, changed |-> TRUE]
    /\ UNCHANGED <<other, third, agg, added>>

NextBuild == DoAddBucket \/ DoAddNode \/ DoAddChild

SpecBuild == InitBuild /\ [][NextBuild]_vars

----------------------------------------------------------------------------
(* the min-price aggregator: Add for each node, then Compute *)

Prices == 0..MaxPrice

InitAgg ==
    /\ root = EmptyRoot
    /\ other = EmptyRoot
    /\ third = EmptyRoot
    /\ op = [name |-> "new", result |-> 0]
    /\ agg = 0
    /\ added = << >>

AggAdd ==
    /\ Len(added) < MaxAdded
    /\ \E p \in Prices :
          /\ agg' = minPriceAdd(agg, p)
          /\ added' = Append(added, p)
    /\ op' = [name |-> "Add", result |-> 0]
    /\ UNCHANGED <<root, other, third>>

AggCompute ==
    /\ op' = [name |-> "Compute", result |-> minPriceCompute(agg)]
    /\ UNCHANGED <<root, other, third, agg, added>>

NextAgg == AggAdd \/ AggCompute

SpecAgg == InitAgg /\ [][NextAgg]_vars

----------------------------------------------------------------------------
(* selection on a constructed tree: GetMaxSelection, then GetSelection on  *)
(* its result with the same select list, as findGraph calls them           *)

KeyX == <<"x">>
KeyH == <<"h">>

SelPaths ==
    { <<"/", "x", ":", "1", "/", "h", ":", "1">>,
      <<"/", "x", ":", "1", "/", "h", ":", "2">>,
      <<"/", "x", ":", "2", "/", "h", ":", "1">>,
      <<"/", "h", ":", "2">> }

Counts == 1..MaxCount

Select(k, c) == [Key |-> k, Count |-> c]

\* the steps on keys, outermost key first
KeySteps ==
    { << >> } \cup
    { <<Select(k, c)>> : k \in {KeyX, KeyH}, c \in Counts } \cup
    { <<Select(KeyX, c), Select(KeyH, d)>> : c \in Counts, d \in Counts }

\* a select list: steps on keys, then at most one step on nodes, last
SelectLists ==
    KeySteps \cup { ks \o <<Select(NodesBucket, c)>> : ks \in KeySteps, c \in Counts }

Filter(k, pass) == [Key |-> k, Pass |-> pass]

FilterLists ==
    { << >>,
      <<Filter(KeyX, {<<"1">>})>>,
      <<Filter(KeyH, {<<"1">>})>>,
      <<Filter(KeyH, {<<"2">>})>>,
      <<Filter(KeyX, {<<"2">>}), Filter(KeyH, {<<"2">>})>> }

Rands == {"nil", "id", "rev", "rot"}

InitSel ==
    /\ root = EmptyRoot
    /\ other = EmptyRoot
    /\ third = EmptyRoot
    /\ op = [name |-> "init", n |-> 0, ss |-> << >>, fs |-> << >>, rnd |-> "nil",
             forbidden |-> << >>, max |-> None, sel |-> None]
    /\ agg = 0
    /\ added = << >>

SelAddNode ==
    /\ op.name \in {"init", "AddNode"}
    /\ op.n < MaxAdds
    /\ \E o \in SelPaths, id \in NodeIds :
          /\ root' = AddNode(root, id, <<o>>).b
          /\ op' = [op EXCEPT !.name = "AddNode", !.n = op.n + 1]
    /\ UNCHANGED <<other, third, agg, added>>

DoGetMaxSelection ==
    /\ op.name \in {"init", "AddNode"}
    /\ \E ss \in SelectLists, fs \in FilterLists :
          op' = [op EXCEPT !.name = "GetMaxSelection", !.ss = ss, !.fs = fs,
                           !.forbidden = findForbidden(root, fs),
                           !.max = GetMaxSelection(root, ss, fs)]
    /\ UNCHANGED <<root, other, third, agg, added>>

DoGetSelection ==
    /\ op.name = "GetMaxSelection"
    /\ op.max # None
    /\ \E rnd \in Rands :
          op' = [op EXCEPT !.name = "GetSelection", !.rnd = rnd,
                           !.sel = GetSelection(op.max[1], op.ss, rnd)]
    /\ UNCHANGED <<root, other, third, agg, added>>

NextSel == SelAddNode \/ DoGetMaxSelection \/ DoGetSelection

SpecSel == InitSel /\ [][NextSel]_vars

----------------------------------------------------------------------------
(* FindGraph on a constructed tree *)

GraphSelectLists ==
    { ss \in SelectLists : Len(ss) <= 2 /\ \A i \in 1..Len(ss) : ss[i].Key # KeyX } \cup
    { <<Select(KeyX, c)>> : c \in Counts } \cup
    { <<Select(KeyX, c), Select(KeyH, 1)>> : c \in Counts }

Selector(ss, fs) == [Selectors |-> ss, Filters |-> fs]

Selectors ==
    { Selector(ss, fs) : ss \in GraphSelectLists,
                         fs \in { << >>, <<Filter(KeyH, {<<"1">>})>> } }

SelectorLists ==
    { <<s>> : s \in Selectors } \cup
    { <<s, t>> : s \in Selectors, t \in { u \in Selectors : u.Filters = << >> } }

InitGraph ==
    /\ root = EmptyRoot
    /\ other = EmptyRoot
    /\ third = EmptyRoot
    /\ op = [name |-> "init", n |-> 0, sels |-> << >>, rnd |-> "nil", graph |-> None]
    /\ agg = 0
    /\ added = << >>

GraphAddNode ==
    /\ op.name \in {"init", "AddNode"}
    /\ op.n < MaxAdds
    /\ \E o \in SelPaths, id \in NodeIds :
          /\ root' = AddNode(root, id, <<o>>).b
          /\ op' = [op EXCEPT !.name = "AddNode", !.n = op.n + 1]
    /\ UNCHANGED <<other, third, agg, added>>

DoFindGraph ==
    /\ op.name \in {"init", "AddNode"}
    /\ \E rnd \in Rands, sels \in SelectorLists :
          op' = [op EXCEPT !.name = "FindGraph", !.sels = sels, !.rnd = rnd,
                           !.graph = FindGraph(root, rnd, sels)]
    /\ UNCHANGED <<root, other, third, agg, added>>

NextGraph == GraphAddNode \/ DoFindGraph

SpecGraph == InitGraph /\ [][NextGraph]_vars

----------------------------------------------------------------------------
(* binary codec *)

Alphabet == {"/", ":", "x", "h", "1", "2"}

\* the byte of a character
Ord(c) ==
    CASE c = "/" -> 47
      [] c = ":" -> 58
      [] c = "x" -> 120
      [] c = "h" -> 104
      [] c = "1" -> 49
      [] c = "2" -> 50

Chr(y) == CHOOSE c \in Alphabet : Ord(c) = y

\* []byte(s) and string(bytes)
Bytes(s) == [i \in 1..Len(s) |-> Ord(s[i])]
String(bs) == [i \in 1..Len(bs) |-> Chr(bs[i])]

\* the four bytes of 0 <= u < 2^31, most significant first
BigEndian(u) ==
    <<(u \div 16777216) % 256, (u \div 65536) % 256, (u \div 256) % 256, u % 256>>

\* binary.BigEndian on an int32: four bytes, two's complement (the bytes of
\* n < 0 are the complements of the bytes of -n - 1)
PutInt32(n) ==
    IF n >= 0 THEN BigEndian(n)
    ELSE [i \in 1..4 |-> 255 - BigEndian(-n - 1)[i]]

Int32(bs) ==
    IF bs[1] < 128
    THEN bs[1] * 16777216 + bs[2] * 65536 + bs[3] * 256 + bs[4]
    ELSE -((255 - bs[1]) * 16777216 + (255 - bs[2]) * 65536
           + (255 - bs[3]) * 256 + (255 - bs[4])) - 1

RECURSIVE PutInt32s(_)
PutInt32s(ns) == IF ns = << >> THEN << >> ELSE PutInt32(ns[1]) \o PutInt32s(Tail(ns))

RECURSIVE Write(_)
RECURSIVE writeChildren(_, _)

writeChildren(b, i) ==
    IF i > Len(b.children) THEN << >>
    ELSE Write(b.children[i]) \o writeChildren(b, i + 1)

\* Bucket.Write into a bytes.Buffer (which never fails): the bytes written
Write(b) ==
    PutInt32(Len(b.Key) + Len(b.Value) + 1) \o Bytes(Name(b))
    \o PutInt32(Len(b.nodes)) \o PutInt32s(b.nodes)
    \o PutInt32(Len(b.children)) \o writeChildren(b, 1)

\* Bucket.MarshalBinary
MarshalBinary(b) == Write(b)

EOF == "EOF"
ErrUnexpectedEOF == "unexpected EOF"

\* io.ReadFull of n > 0 bytes from the buffer buf, as binary.Read calls it
ReadFull(buf, n) ==
    IF Len(buf) = 0 THEN [err |-> EOF, data |-> << >>, rest |-> buf]
    ELSE IF Len(buf) < n THEN [err |-> ErrUnexpectedEOF, data |-> buf, rest |-> << >>]
    ELSE [err |-> NoErr, data |-> SubSeq(buf, 1, n), rest |-> From(buf, n)]

\* bytes.Buffer.Read into a slice of n bytes
BufferRead(buf, n) ==
    IF Len(buf) = 0
    THEN [err |-> IF n = 0 THEN NoErr ELSE EOF, data |-> << >>, rest |-> buf]
    ELSE LET m == IF n < Len(buf) THEN n ELSE Len(buf)
         IN  [err |-> NoErr, data |-> SubSeq(buf, 1, m), rest |-> From(buf, m)]

\* binary.Read of one int32
ReadInt32(buf) ==
    LET r == ReadFull(buf, 4)
    IN  [err |-> r.err, v |-> IF r.err = NoErr THEN Int32(r.data) ELSE 0, rest |-> r.rest]

\* binary.Read of a slice of n > 0 int32: the slice stays zeroed on an error
ReadInt32s(buf, n) ==
    LET r == ReadFull(buf, 4 * n)
    IN  [err |-> r.err,
         v |-> IF r.err = NoErr
               THEN [i \in 1..n |-> Int32(SubSeq(r.data, 4 * i - 3, 4 * i))]
               ELSE [i \in 1..n |-> 0],
         rest |-> r.rest]

RECURSIVE Read(_, _)
RECURSIVE readChildren(_, _, _, _)

\* the loop of Read over the children cs made by make([]Bucket, ln), from
\* position i
readChildren(cs, buf, i, b) ==
    IF i > Len(cs) THEN [b |-> [b EXCEPT !.children = cs], err |-> NoErr, rest |-> buf]
    ELSE LET r == Read(cs[i], buf)
         IN  IF r.err # NoErr
             THEN [b |-> [b EXCEPT !.children = [cs EXCEPT ![i] = r.b]],
                   err |-> r.err, rest |-> r.rest]
             ELSE readChildren([cs EXCEPT ![i] = r.b], r.rest, i + 1, b)

\* Bucket.Read on the receiver b from the buffer buf: the receiver afterwards,
\* the error and what is left in the buffer
Read(b, buf) ==
    LET l1 == ReadInt32(buf)
    IN  IF l1.err # NoErr THEN [b |-> b, err |-> l1.err, rest |-> l1.rest]
        ELSE IF l1.v < 0 THEN [b |-> b, err |-> "panic", rest |-> l1.rest]
        ELSE
        LET nm == BufferRead(l1.rest, l1.v)
        IN  IF nm.err # NoErr THEN [b |-> b, err |-> nm.err, rest |-> nm.rest]
            ELSE IF Len(nm.data) # l1.v
            THEN [b |-> b, err |-> "unmarshaller error: cannot read name", rest |-> nm.rest]
            ELSE
            LET kv == splitKV(String(nm.data))
                b1 == [b EXCEPT !.Key = kv.k, !.Value = kv.v]
                l2 == ReadInt32(nm.rest)
            IN  IF l2.err # NoErr THEN [b |-> b1, err |-> l2.err, rest |-> l2.rest]
                ELSE
                LET ns == IF l2.v > 0 THEN ReadInt32s(l2.rest, l2.v)
                          ELSE [err |-> NoErr, v |-> b1.nodes, rest |-> l2.rest]
                    b2 == [b1 EXCEPT !.nodes = ns.v]
                IN  IF ns.err # NoErr THEN [b |-> b2, err |-> ns.err, rest |-> ns.rest]
                    ELSE
                    LET l3 == ReadInt32(ns.rest)
                    IN  IF l3.err # NoErr THEN [b |-> b2, err |-> l3.err, rest |-> l3.rest]
                        ELSE IF l3.v > 0
                        THEN readChildren([i \in 1..l3.v |-> Bucket(<< >>, << >>)],
                                          l3.rest, 1, b2)
                        ELSE [b |-> b2, err |-> NoErr, rest |-> l3.rest]

\* Bucket.UnmarshalBinary on the receiver b: the receiver afterwards and the
\* error returned
UnmarshalBinary(b, data) ==
    LET r == Read(b, data)
    IN  [b |-> r.b, err |-> IF r.err = EOF THEN NoErr ELSE r.err]

CodecPaths ==
    { <<"/", "x", ":", "1">>,
      <<"/", "x", ":", "1", "/", "h", ":", "1">>,
      <<"/", "h", ":", "1", ":", "2">> }

InitCodec ==
    /\ root = EmptyRoot
    /\ other = EmptyRoot
    /\ third = EmptyRoot
    /\ op = [name |-> "init", n |-> 0, data |-> << >>, k |-> 0, err |-> NoErr]
    /\ agg = 0
    /\ added = << >>

CodecAddBucket ==
    /\ op.name \in {"init", "AddBucket"}
    /\ op.n < MaxAdds
    /\ \E o \in CodecPaths, ids \in IdLists :
          /\ root' = AddBucket(root, o, ids).b
          /\ op' = [op EXCEPT !.name = "AddBucket", !.n = op.n + 1]
    /\ UNCHANGED <<other, third, agg, added>>

DoMarshal ==
    /\ op.name \in {"init", "AddBucket"}
    /\ op' = [op EXCEPT !.name = "MarshalBinary", !.data = MarshalBinary(root)]
    /\ UNCHANGED <<root, other, third, agg, added>>

\* UnmarshalBinary on a new Bucket, from the first k bytes of the encoding
DoUnmarshal ==
    /\ op.name = "MarshalBinary"
    /\ \E k \in 1..Len(op.data) :
          LET r == UnmarshalBinary(Bucket(<< >>, << >>), SubSeq(op.data, 1, k))
          IN  /\ other' = r.b
              /\ op' = [op EXCEPT !.name = "UnmarshalBinary", !.k = k, !.err = r.err]
    /\ UNCHANGED <<root, third, agg, added>>

NextCodec == CodecAddBucket \/ DoMarshal \/ DoUnmarshal

SpecCodec == InitCodec /\ [][NextCodec]_vars

----------------------------------------------------------------------------
(* Merge and checkConflicts on three constructed trees *)

MergePaths ==
    { <<"/", "x", ":", "1">>,
      <<"/", "x", ":", "2">>,
      <<"/", "x", ":", "1", "/", "h", ":", "1">>,
      <<"/", "x", ":", "1", "/", "h", ":", "2">> }

MergeIds == {1, 2}

InitMerge ==
    /\ root = EmptyRoot
    /\ other = EmptyRoot
    /\ third = EmptyRoot
    /\ op = [name |-> "init", n |-> 0, tree |-> 1, conflict |-> FALSE, free |-> FALSE,
             ab |-> EmptyRoot, ba |-> EmptyRoot, ab_c |-> EmptyRoot, a_bc |-> EmptyRoot]
    /\ agg = 0
    /\ added = << >>

\* AddNode on the first, the second or the third tree; the trees are built
\* one after the other
MergeAddNode ==
    /\ op.name \in {"init", "AddNode"}
    /\ op.n < MaxMergeAdds
    /\ \E t \in op.tree..3, o \in MergePaths, id \in MergeIds :
          /\ root'  = IF t = 1 THEN AddNode(root, id, <<o>>).b ELSE root
          /\ other' = IF t = 2 THEN AddNode(other, id, <<o>>).b ELSE other
          /\ third' = IF t = 3 THEN AddNode(third, id, <<o>>).b ELSE third
          /\ op' = [op EXCEPT !.name = "AddNode", !.n = op.n + 1, !.tree = t]
    /\ UNCHANGED <<agg, added>>

\* the buckets handed to AddChild
MergeChildren ==
    { makeTreeProps(splitProps(From(p, 1)), <<1>>) :
         p \in { <<"/", "x", ":", "1">>, <<"/", "x", ":", "1", "/", "h", ":", "1">> } }
    \cup { makeTreeProps(splitProps(<<"x", ":", "1">>), <<2>>) }

\* AddChild on one of the trees: it appends the child whatever the labels of
\* the children already there
MergeAddChild ==
    /\ op.name \in {"init", "AddNode"}
    /\ op.n < MaxMergeAdds
    /\ \E t \in op.tree..3, c \in MergeChildren :
          /\ root'  = IF t = 1 THEN AddChild(root, c) ELSE root
          /\ other' = IF t = 2 THEN AddChild(other, c) ELSE other
          /\ third' = IF t = 3 THEN AddChild(third, c) ELSE third
          /\ op' = [op EXCEPT !.name = "AddNode", !.n = op.n + 1, !.tree = t]
    /\ UNCHANGED <<agg, added>>

\* a.Merge(b) on a copy of a
Merged(a, b) == Merge(Copy(a), b)

\* checkConflicts, then the merges of the three trees in both groupings and
\* of the first two in both orders, each on copies
DoMerge ==
    /\ op.name \in {"init", "AddNode"}
    /\ op' = [op EXCEPT
                !.name = "Merge",
                !.conflict = checkConflicts(root, other),
                !.free = \A p \in {<<root, other>>, <<other, root>>, <<root, third>>,
                                   <<third, root>>, <<other, third>>, <<third, other>>} :
                            ~checkConflicts(p[1], p[2]),
                !.ab = Merged(root, other),
                !.ba = Merged(other, root),
                !.ab_c = Merged(Merged(root, other), third),
                !.a_bc = Merged(root, Merged(other, third))]
    /\ UNCHANGED <<root, other, third, agg, added>>

NextMerge == MergeAddNode \/ MergeAddChild \/ DoMerge

SpecMerge == InitMerge /\ [][NextMerge]_vars

----------------------------------------------------------------------------
(* what the claims call a valid tree *)

IsAscending(s) == \A i \in 1..(Len(s) - 1) : s[i] < s[i + 1]

RECURSIVE Contained(_)
\* every id of a child is in its parent's nodes, at every depth
Contained(b) ==
    \A i \in 1..Len(b.children) :
        /\ Range(b.children[i].nodes) \subseteq Range(b.nodes)
        /\ Contained(b.children[i])

RECURSIVE SiblingsDisjoint(_)
\* no id is in two distinct children of one parent, at every depth
SiblingsDisjoint(b) ==
    /\ \A i, j \in 1..Len(b.children) :
          i # j => Range(b.children[i].nodes) \cap Range(b.children[j].nodes) = {}
    /\ \A i \in 1..Len(b.children) : SiblingsDisjoint(b.children[i])

RECURSIVE NodesAscending(_)
\* nodes is sorted ascending without duplicates, at every depth
NodesAscending(b) ==
    /\ IsAscending(b.nodes)
    /\ \A i \in 1..Len(b.children) : NodesAscending(b.children[i])

ValidTree(b) == Contained(b) /\ SiblingsDisjoint(b) /\ NodesAscending(b)

RECURSIVE UniqueSiblings(_)
\* no two children of one parent share a (Key,Value) label, at every depth
UniqueSiblings(b) ==
    /\ \A i, j \in 1..Len(b.children) :
          i # j => ~Equals(b.children[i], b.children[j])
    /\ \A i \in 1..Len(b.children) : UniqueSiblings(b.children[i])

----------------------------------------------------------------------------
(* C9 *)

Min(S) == CHOOSE x \in S : \A y \in S : x <= y

NonZero(s) == { s[i] : i \in 1..Len(s) } \ {0}

\* C9: Compute returns the smallest non-zero price among the nodes added,
\* and 0 only when no added node has a non-zero price.
C9_MinNonZero ==
    op.name = "Compute" =>
        op.result = (IF NonZero(added) = {} THEN 0 ELSE Min(NonZero(added)))

----------------------------------------------------------------------------
(* C7 *)

\* the path does not start with '/', or ends with '/', or has a segment
\* without ':'
Malformed(o) ==
    \/ Len(o) = 0
    \/ o[1] # "/"
    \/ o[Len(o)] = "/"
    \/ \E i \in 1..Len(Split(Tail(o), "/")) :
          IndexOf(Split(Tail(o), "/")[i], ":", 1) = 0

\* C7: AddBucket returns an error and leaves the tree unchanged whenever the
\* path is malformed.
C7_MalformedRejected ==
    (op.name = "AddBucket" /\ Malformed(op.path)) =>
        (op.err # NoErr /\ ~op.changed)

----------------------------------------------------------------------------
(* C3 *)

\* C3 as stated: after any sequence of successful AddBucket, AddNode and
\* AddChild calls the tree is valid: children contained in their parent,
\* siblings disjoint, nodes ascending.
C3_ValidAfterMutation == ValidTree(root)

----------------------------------------------------------------------------
(* C2 *)

RECURSIVE AllIds(_)
\* the ids in the nodes of b and of its descendants
AllIds(b) ==
    Range(b.nodes) \cup UNION { AllIds(b.children[i]) : i \in 1..Len(b.children) }

\* C2: when GetMaxSelection(ss, F) returns a bucket, no id of findForbidden(F)
\* is in the nodes of that bucket or of any of its descendants.
C2_NoForbidden ==
    (op.name = "GetMaxSelection" /\ op.max # None) =>
        AllIds(op.max[1]) \cap Range(op.forbidden) = {}

\* a selection was found although some ids of the tree are forbidden
C2_Witness ==
    /\ op.name = "GetMaxSelection"
    /\ op.max # None
    /\ op.forbidden # << >>
    /\ Len(op.max[1].children) >= 1
    /\ Len(op.ss) >= 1

----------------------------------------------------------------------------
(* C1 *)

RECURSIVE SubLabelling(_, _)
\* every (Key,Value) path of r from its root is a path of t
SubLabelling(r, t) ==
    /\ Equals(r, t)
    /\ \A i \in 1..Len(r.children) :
          \E j \in 1..Len(t.children) : SubLabelling(r.children[i], t.children[j])

\* C1: on a valid tree, FindGraph returns null or a valid tree whose label
\* paths all exist in the tree.
C1_GraphValid ==
    (op.name = "FindGraph" /\ ValidTree(root) /\ op.graph # None) =>
        (/\ op.graph # Panic
         /\ ValidTree(op.graph[1])
         /\ SubLabelling(op.graph[1], root))

----------------------------------------------------------------------------
(* C10 *)

Label(b) == <<b.Key, b.Value>>

RECURSIVE Placed(_, _, _)
\* the outermost buckets with key k below b, each as <<label path, ids>>
Placed(b, k, path) ==
    UNION { IF b.children[i].Key = k
            THEN { <<Append(path, Label(b.children[i])), Range(b.children[i].nodes)>> }
            ELSE Placed(b.children[i], k, Append(path, Label(b.children[i])))
          : i \in 1..Len(b.children) }

\* how many of the buckets cs yield a selection for the rest of the list
Successes(cs, ss, rnd) ==
    Cardinality({ i \in 1..Len(cs) : GetSelection(cs[i], ss, rnd) # None })

\* C10: GetSelection on a first step (K, Count), K not empty, returns a bucket
\* exactly when at least Count of the buckets of getChildrenByKey yield a
\* selection for the rest of the list; the bucket returned holds exactly Count
\* distinct buckets with key K, each under the label path it has in b and
\* with ids of the bucket of b at that path only.
C10_Selection ==
    (/\ op.name = "GetSelection"
     /\ Len(op.ss) >= 1
     /\ op.ss[1].Key # NodesBucket
     /\ ValidTree(op.max[1])
     /\ UniqueSiblings(op.max[1])) =>
        LET b  == op.max[1]
            s  == op.ss[1]
            cs == getChildrenByKey(b, s, 1)
        IN  /\ op.sel # Panic
            /\ (op.sel # None) <=> (Successes(cs, Tail(op.ss), op.rnd) >= s.Count)
            /\ op.sel # None =>
                  /\ Len(getChildrenByKey(op.sel[1], s, 1)) = s.Count
                  /\ Cardinality(Placed(op.sel[1], s.Key, << >>)) = s.Count
                  /\ \A p \in Placed(op.sel[1], s.Key, << >>) :
                        \E q \in Placed(b, s.Key, << >>) :
                            q[1] = p[1] /\ p[2] \subseteq q[2]

----------------------------------------------------------------------------
(* C4 *)

\* C4: for valid trees A and B (no two siblings with one label), if
\* A.checkConflicts(B) is false then A is still valid, at every depth, after
\* A.Merge(B).
C4_MergeKeepsValid ==
    (/\ op.name = "Merge"
     /\ ValidTree(root) /\ ValidTree(other)
     /\ UniqueSiblings(root) /\ UniqueSiblings(other)
     /\ ~op.conflict) =>
        ValidTree(op.ab)

----------------------------------------------------------------------------
(* C6 *)

RECURSIVE SameUpToOrder(_, _)
\* equal labels and nodes, and the same children in some order, at every depth
SameUpToOrder(a, b) ==
    /\ Equals(a, b)
    /\ a.nodes = b.nodes
    /\ Len(a.children) = Len(b.children)
    /\ \A i \in 1..Len(a.children) :
          \E j \in 1..Len(b.children) : SameUpToOrder(a.children[i], b.children[j])
    /\ \A j \in 1..Len(b.children) :
          \E i \in 1..Len(a.children) : SameUpToOrder(a.children[i], b.children[j])

\* the three trees are valid, pairwise conflict-free, and no two siblings in
\* them share a label
C6_Trees ==
    /\ op.name = "Merge"
    /\ op.free
    /\ ValidTree(root) /\ ValidTree(other) /\ ValidTree(third)
    /\ UniqueSiblings(root) /\ UniqueSiblings(other) /\ UniqueSiblings(third)

\* C6 as stated: on pairwise conflict-free trees A.Merge(B) equals B.Merge(A)
\* and A.Merge(B).Merge(C) equals A.Merge(B.Merge(C)).
C6_CommutativeAssociative ==
    C6_Trees => (op.ab = op.ba /\ op.ab_c = op.a_bc)

\* C6, amended: A.Merge(B).Merge(C) equals A.Merge(B.Merge(C)), and A.Merge(B)
\* equals B.Merge(A) up to the order of the children.
C6_AssociativeCommutativeUpToOrder ==
    C6_Trees => (SameUpToOrder(op.ab, op.ba) /\ op.ab_c = op.a_bc)

\* three trees with a common child were merged
C6_Witness ==
    /\ C6_Trees
    /\ Len(root.children) >= 1
    /\ Len(other.children) >= 1
    /\ Len(third.children) >= 1
    /\ Len(op.ab_c.children) < 3
    /\ root.nodes # other.nodes

----------------------------------------------------------------------------
(* C5 *)

----------------------------------------------------------------------------
(* C8 *)

\* C8: UnmarshalBinary returns an error for every non-empty strict prefix of
\* an encoding.
C8_PrefixRejected ==
    (op.name = "UnmarshalBinary" /\ op.k < Len(op.data)) => op.err # NoErr

====
